---- MODULE Spec2Model ----
(***************************************************************************)
(* A model of sup.c, a multi-threaded chat server: the main thread accepts *)
(* connections and hands their descriptors to NUM_THREADS worker threads   *)
(* through a ring buffer (queue); each worker registers its client in a    *)
(* linked list (list), relays what the client sends to every registered    *)
(* client, then unregisters and closes it.                                 *)
(*                                                                         *)
(* Threads are 0 (main) and 1..NUM_THREADS (the workers).  Every step of   *)
(* a thread between two points where another thread can observe or change *)
(* shared state is one action.  The kernel is modelled by the descriptor   *)
(* table (open) and by what each connection has been sent (recv).          *)
(***************************************************************************)
EXTENDS Integers, Sequences, FiniteSets, TLC

NUM_THREADS == 4
QUEUE_MAX == 16

\* Descriptor of the listening socket: 0, 1, 2 are the standard streams, and a
\* call that opens a descriptor returns the lowest one that is free.
Listener == 3

\* Bounds of the environment: how many times accept() returns a connection,
\* and how many other things the environment does in a run (its events): a
\* read that returns (data, end-of-stream or an error), a write to a live
\* descriptor that is short or fails, a malloc() that fails.  A run from the
\* loaded initial state has bounds of its own.
MaxAccepts == 2
MaxEvents == 2
LoadedAccepts == 5
LoadedEvents == 0

Main == 0
Workers == 1..NUM_THREADS
\* The owner of an unlocked mutex.
NoThread == 0 - 1
\* The value of an int of static storage that was never assigned.
NoSock == 0

\* Descriptors a client connection can get: at most QUEUE_MAX-1 are pending,
\* NUM_THREADS in service and one in the hands of main.
ClientFds == (Listener + 1)..(Listener + QUEUE_MAX + NUM_THREADS)

\* Connections already pending in the loaded initial state.
Preload == QUEUE_MAX - 2

VARIABLES
    queue,      \* the ring buffer: sockets, read, write, mutex (owner), empty (waiters)
    list,       \* the registry: head (the socks of the nodes from head on), mutex (owner)
    linit,      \* list_init() has run
    mpc,        \* main: where it is
    mi,         \* main: i, the number of workers created
    mclient,    \* main: client
    mret,       \* main: what queue_add returned
    mpend,      \* what was pending when queue_add took its decision (history)
    pc,         \* worker: where it is
    client,     \* worker: client (run), sock (queue_get, list_append, list_delete)
    node,       \* worker: what list_append returned: 0 for NULL, else the node, numbered
                \* above the nodes that are older
    p,          \* worker: p of list_broadcast, as the number of nodes from p to the end
    buf,        \* worker: the payload in buf (the number of the read that got it), 0 for none
    bc,         \* worker: its last list_broadcast: snap, sent, ret (history)
    open,       \* kernel: the open client descriptors
    recv,       \* kernel: what the connection on each descriptor was sent
    enq,        \* the handles whose queue_add returned 0, in order (history)
    deq,        \* the handles queue_get returned, in order (history)
    rej,        \* the handles whose queue_add returned -1, in order (history)
    env         \* what the environment may still do: accepts, events

vars == <<queue, list, linit, mpc, mi, mclient, mret, mpend, pc, client, node,
          p, buf, bc, open, recv, enq, deq, rej, env>>

mainvars == <<mpc, mi, mclient, mret, mpend>>
workervars == <<pc, client, node, p, buf, bc>>

Range(s) == {s[i] : i \in 1..Len(s)}

\* Return the number of elements in the queue
queue_size == (QUEUE_MAX - queue.read + queue.write) % QUEUE_MAX

\* The handles in the ring buffer from read up to write (what is pending).
Pending == [i \in 1..queue_size |-> queue.sockets[(queue.read + i - 1) % QUEUE_MAX]]

\* accept() returns the lowest descriptor that is not open.
LowestFree == CHOOSE fd \in ClientFds \ open : \A g \in ClientFds \ open : fd <= g

NoBroadcast == [snap |-> <<>>, sent |-> <<>>, ret |-> 1]

----
\* The initial states.

\* After queue_init() (main, line 107): no worker created yet.
InitBoot ==
    /\ queue = [sockets |-> [i \in 0..(QUEUE_MAX - 1) |-> NoSock], read |-> 0,
                write |-> 0, mutex |-> NoThread, empty |-> {}]
    /\ list = [head |-> <<>>, mutex |-> NoThread]
    /\ linit = FALSE
    /\ mpc = "create"
    /\ mi = 0
    /\ mclient = NoSock
    /\ mret = 0
    /\ mpend = 0
    /\ pc = [w \in Workers |-> "none"]
    /\ client = [w \in Workers |-> NoSock]
    /\ node = [w \in Workers |-> 0]
    /\ p = [w \in Workers |-> 0]
    /\ buf = [w \in Workers |-> 0]
    /\ bc = [w \in Workers |-> NoBroadcast]
    /\ open = {}
    /\ recv = [fd \in ClientFds |-> <<>>]
    /\ enq = <<>>
    /\ deq = <<>>
    /\ rej = <<>>
    /\ env = [accepts |-> MaxAccepts, events |-> MaxEvents]

\* The state Preload accepts later when no worker has run yet: main is back at
\* accept(), the workers are all about to call queue_get, and the first
\* Preload connections are pending.
InitLoaded ==
    /\ queue = [sockets |-> [i \in 0..(QUEUE_MAX - 1) |->
                                IF i < Preload THEN Listener + 1 + i ELSE NoSock],
                read |-> 0, write |-> Preload, mutex |-> NoThread, empty |-> {}]
    /\ list = [head |-> <<>>, mutex |-> NoThread]
    /\ linit = TRUE
    /\ mpc = "accept"
    /\ mi = NUM_THREADS
    /\ mclient = Listener + Preload
    /\ mret = 0
    /\ mpend = Preload - 1
    /\ pc = [w \in Workers |-> "queue_get"]
    /\ client = [w \in Workers |-> NoSock]
    /\ node = [w \in Workers |-> 0]
    /\ p = [w \in Workers |-> 0]
    /\ buf = [w \in Workers |-> 0]
    /\ bc = [w \in Workers |-> NoBroadcast]
    /\ open = (Listener + 1)..(Listener + Preload)
    /\ recv = [fd \in ClientFds |-> <<>>]
    /\ enq = [i \in 1..Preload |-> Listener + i]
    /\ deq = <<>>
    /\ rej = <<>>
    /\ env = [accepts |-> LoadedAccepts, events |-> LoadedEvents]

Init == InitBoot \/ InitLoaded

----
\* main

\* for (i = 0; i < NUM_THREADS; i++) pthread_create(&worker_th, NULL, run, NULL)
main_create ==
    /\ mpc = "create"
    /\ IF mi < NUM_THREADS
       THEN /\ pc' = [pc EXCEPT ![mi + 1] = "queue_get"]
            /\ mi' = mi + 1
            /\ mpc' = mpc
       ELSE /\ mpc' = "list_init"
            /\ UNCHANGED <<pc, mi>>
    /\ UNCHANGED <<queue, list, linit, mclient, mret, mpend, client, node, p, buf,
                   bc, open, recv, enq, deq, rej, env>>

\* list.head = NULL; pthread_mutex_init(&list.mutex, NULL)
list_init ==
    /\ mpc = "list_init"
    /\ list' = [head |-> <<>>, mutex |-> NoThread]
    /\ linit' = TRUE
    /\ mpc' = "accept"
    /\ UNCHANGED <<queue, mi, mclient, mret, mpend, workervars, open, recv, enq, deq, rej, env>>

\* client = accept(listener, &sa, &len), client >= 0
main_accept ==
    /\ mpc = "accept"
    /\ env.accepts > 0
    /\ mclient' = LowestFree
    /\ open' = open \cup {LowestFree}
    /\ recv' = [recv EXCEPT ![LowestFree] = <<>>]
    /\ env' = [env EXCEPT !.accepts = @ - 1]
    /\ mpc' = "queue_add"
    /\ UNCHANGED <<queue, list, linit, mi, mret, mpend, workervars, enq, deq, rej>>

\* client = accept(...), client < 0: break; close(listener); return 0
main_accept_fails ==
    /\ mpc = "accept"
    /\ mpc' = "exit"
    /\ UNCHANGED <<queue, list, linit, mi, mclient, mret, mpend, workervars, open,
                   recv, enq, deq, rej, env>>

\* Signalled with the bug of waking nobody.
Signalled_nobody == {{}}

\* pthread_cond_signal(&queue.empty): one of the waiting threads, if any, wakes.
Signalled == IF queue.empty = {} THEN {{}} ELSE {{w} : w \in queue.empty}

\* queue_full with the bug of comparing with QUEUE_MAX.
queue_full_never == queue_size = QUEUE_MAX

\* if (queue_size() == QUEUE_MAX-1)
queue_full == queue_size = QUEUE_MAX - 1

\* write_next with the bug of not wrapping around.
write_next_nowrap == queue.write + 1

\* queue.write = (queue.write+1)%QUEUE_MAX
write_next == (queue.write + 1) % QUEUE_MAX

\* queue_add(client), from pthread_mutex_lock to pthread_mutex_unlock: full,
\* return -1; or store, advance, signal, return 0.  A woken worker is back
\* where it locks the mutex and tests the queue.
queue_add ==
    /\ mpc = "queue_add"
    /\ queue.mutex = NoThread
    /\ mpend' = Len(enq) - Len(deq)
    /\ IF queue_full
       THEN /\ mret' = 0 - 1
            /\ rej' = Append(rej, mclient)
            /\ UNCHANGED <<queue, pc, enq>>
       ELSE \E woken \in Signalled :
            /\ queue' = [queue EXCEPT !.sockets[queue.write] = mclient,
                                      !.write = write_next,
                                      !.empty = @ \ woken]
            /\ pc' = [w \in Workers |-> IF w \in woken THEN "queue_get" ELSE pc[w]]
            /\ mret' = 0
            /\ enq' = Append(enq, mclient)
            /\ UNCHANGED <<rej>>
    /\ mpc' = "added"
    /\ UNCHANGED <<list, linit, mi, mclient, client, node, p, buf, bc, open, recv,
                   deq, env>>

\* main_after_add with the bug of leaving a rejected client open.
main_after_add_no_close ==
    /\ mpc = "added"
    /\ mpc' = "accept"
    /\ UNCHANGED <<queue, list, linit, mi, mclient, mret, mpend, workervars, open,
                   recv, enq, deq, rej, env>>

\* if (queue_add(client) < 0) close(client);
main_after_add ==
    /\ mpc = "added"
    /\ open' = IF mret < 0 THEN open \ {mclient} ELSE open
    /\ mpc' = "accept"
    /\ UNCHANGED <<queue, list, linit, mi, mclient, mret, mpend, workervars, recv,
                   enq, deq, rej, env>>

----
\* The workers.  When main returns the process ends, and every thread with it.
Running == mpc # "exit"

\* CanLock with the bug of a lock that never excludes.
CanLock_always(m, t) == TRUE

\* pthread_mutex_lock returns to thread t: the mutex is free, or t itself holds
\* it.  The mutexes are default ones, so that locking one again is undefined:
\* the thread blocks for good (self_deadlock) or the call returns (here).
CanLock(m, t) == m = NoThread \/ m = t

\* queue_head with the bug of taking the handle stored last.
queue_head_newest == queue.sockets[(queue.write + QUEUE_MAX - 1) % QUEUE_MAX]

\* sock = queue.sockets[queue.read]
queue_head == queue.sockets[queue.read]

\* read_next with the bug of leaving the cursor where it is.
read_next_stay == queue.read

\* queue.read = (queue.read+1)%QUEUE_MAX
read_next == (queue.read + 1) % QUEUE_MAX

\* queue_is_empty with the bug of never waiting.
queue_is_empty_never == FALSE

\* while (!queue_size())
queue_is_empty == queue_size = 0

\* queue_get, from pthread_mutex_lock to pthread_mutex_unlock or to the wait:
\* while (!queue_size()) pthread_cond_wait(...), which unlocks and waits; else
\* take the head, advance, unlock, return.
queue_get(w) ==
    /\ Running
    /\ pc[w] = "queue_get"
    /\ queue.mutex = NoThread
    /\ IF queue_is_empty
       THEN /\ queue' = [queue EXCEPT !.empty = @ \cup {w}]
            /\ pc' = [pc EXCEPT ![w] = "cond_wait"]
            /\ UNCHANGED <<client, deq>>
       ELSE /\ client' = [client EXCEPT ![w] = queue_head]
            /\ queue' = [queue EXCEPT !.read = read_next]
            /\ deq' = Append(deq, queue_head)
            /\ pc' = [pc EXCEPT ![w] = "list_append"]
    /\ UNCHANGED <<list, linit, mainvars, node, p, buf, bc, open, recv, enq, rej,
                   env>>

\* pthread_cond_wait may return without any signal: the worker is back where
\* it locks the mutex and tests the queue.
spurious_wakeup(w) ==
    /\ Running
    /\ pc[w] = "cond_wait"
    /\ queue' = [queue EXCEPT !.empty = @ \ {w}]
    /\ pc' = [pc EXCEPT ![w] = "queue_get"]
    /\ UNCHANGED <<list, linit, mainvars, client, node, p, buf, bc, open, recv,
                   enq, deq, rej, env>>

\* p = malloc(sizeof(Node)), p != NULL: a node that is none of the others.
NewNode == 1 + CHOOSE m \in 0..Len(deq) :
                  /\ \A w \in Workers : node[w] <= m
                  /\ \E w \in Workers : m = 0 \/ node[w] = m

\* list_push with the bug of linking the node at the tail.
list_push_tail(head, sock) == head \o <<sock>>

\* p->next = list.head; list.head = p;
list_push(head, sock) == <<sock>> \o head

\* list_append(client): malloc fails and it returns NULL; or, from
\* pthread_mutex_lock to pthread_mutex_unlock, it links the node at the head
\* and returns it.
list_append(w) ==
    /\ Running
    /\ pc[w] = "list_append"
    /\ \/ /\ env.events > 0
          /\ env' = [env EXCEPT !.events = @ - 1]
          /\ node' = [node EXCEPT ![w] = 0]
          /\ UNCHANGED <<list>>
       \/ /\ CanLock(list.mutex, w)
          /\ list' = [head |-> list_push(list.head, client[w]), mutex |-> NoThread]
          /\ node' = [node EXCEPT ![w] = NewNode]
          /\ UNCHANGED <<env>>
    /\ pc' = [pc EXCEPT ![w] = "read"]
    /\ UNCHANGED <<queue, linit, mainvars, client, p, buf, bc, open, recv, enq,
                   deq, rej>>

\* do_work: seen = read(client, buf, sizeof(buf)-1): data, or end-of-stream
\* (0) or an error (< 0), which both leave the loop.  A read that never returns
\* is the worker staying here.
do_work_read(w) ==
    /\ Running
    /\ pc[w] = "read"
    /\ \/ /\ env.events > 0
          /\ env' = [env EXCEPT !.events = @ - 1]
          /\ buf' = [buf EXCEPT ![w] = env.events]
          /\ pc' = [pc EXCEPT ![w] = "list_broadcast"]
       \/ /\ env.events > 0
          /\ \E seen \in {0 - 1, 0} :
                /\ env' = [env EXCEPT !.events = @ - 1]
                /\ buf' = [buf EXCEPT ![w] = 0]
                /\ pc' = [pc EXCEPT ![w] = "list_delete"]
    /\ bc' = [bc EXCEPT ![w] = NoBroadcast]
    /\ UNCHANGED <<queue, list, linit, mainvars, client, node, p, open, recv,
                   enq, deq, rej>>

\* list_broadcast_lock with the bug of not waiting for the mutex.
list_broadcast_no_lock(w) ==
    /\ Running
    /\ pc[w] = "list_broadcast"
    /\ p' = [p EXCEPT ![w] = Len(list.head)]
    /\ bc' = [bc EXCEPT ![w] = [snap |-> list.head, sent |-> <<>>, ret |-> 1]]
    /\ pc' = [pc EXCEPT ![w] = "write"]
    /\ UNCHANGED <<queue, list, linit, mainvars, client, node, buf, open, recv, enq,
                   deq, rej, env>>

\* list_broadcast: pthread_mutex_lock(&list.mutex); p = list.head
list_broadcast_lock(w) ==
    /\ Running
    /\ pc[w] = "list_broadcast"
    /\ CanLock(list.mutex, w)
    /\ list' = [list EXCEPT !.mutex = w]
    /\ p' = [p EXCEPT ![w] = Len(list.head)]
    /\ bc' = [bc EXCEPT ![w] = [snap |-> list.head, sent |-> <<>>, ret |-> 1]]
    /\ pc' = [pc EXCEPT ![w] = "write"]
    /\ UNCHANGED <<queue, linit, mainvars, client, node, buf, open, recv, enq,
                   deq, rej, env>>

\* sock_at with the bug of walking the list from its tail.
sock_at_from_tail(n) == list.head[n]

\* The sock of the node that has n nodes from it to the end of the list.
sock_at(n) == list.head[Len(list.head) - n + 1]

\* p_next with the bug of skipping a node.
p_next_skip(n) == IF n > 1 THEN n - 2 ELSE 0

\* p = p->next
p_next(n) == n - 1

\* What write(fd, buf, len) can do: "full" writes len bytes, "short" fewer,
\* "error" none.  A descriptor that is not open gives an error (EBADF).
WriteOutcomes(fd) ==
    IF fd \notin open THEN {"error"}
    ELSE {"full"} \cup (IF env.events > 0 THEN {"short", "error"} ELSE {})

\* list_broadcast, with the mutex held, one turn of the loop: at the end unlock
\* and return 0; else write to p->sock and go on, or return -1 if the write
\* did not write len bytes.  A write that never returns is the worker staying
\* here.
list_broadcast(w) ==
    /\ Running
    /\ pc[w] = "write"
    /\ IF p[w] = 0
       THEN /\ list' = [list EXCEPT !.mutex = NoThread]
            /\ bc' = [bc EXCEPT ![w].ret = 0]
            /\ pc' = [pc EXCEPT ![w] = "read"]
            /\ UNCHANGED <<p, recv, env>>
       ELSE \E res \in WriteOutcomes(sock_at(p[w])) :
            /\ recv' = CASE res = "full" ->
                              [recv EXCEPT ![sock_at(p[w])] = Append(@, buf[w])]
                         [] res = "short" ->
                              [recv EXCEPT ![sock_at(p[w])] = Append(@, 0 - buf[w])]
                         [] OTHER -> recv
            /\ env' = IF res # "full" /\ sock_at(p[w]) \in open
                      THEN [env EXCEPT !.events = @ - 1] ELSE env
            /\ IF res = "full"
               THEN /\ p' = [p EXCEPT ![w] = p_next(@)]
                    /\ bc' = [bc EXCEPT ![w].sent = Append(@, sock_at(p[w]))]
                    /\ UNCHANGED <<pc>>
               ELSE /\ bc' = [bc EXCEPT ![w].ret = 0 - 1]
                    /\ pc' = [pc EXCEPT ![w] = "list_delete"]
                    /\ p' = [p EXCEPT ![w] = 0]
            /\ UNCHANGED <<list>>
    /\ UNCHANGED <<queue, linit, mainvars, client, node, buf, open, enq, deq, rej>>

\* list_unlink with the bug of unlinking the head whatever its sock.
list_unlink_head(head, sock) == Tail(head)

\* The list without its first node whose sock is sock.
RECURSIVE list_unlink(_, _)
list_unlink(head, sock) ==
    IF head = <<>> THEN <<>>
    ELSE IF Head(head) = sock THEN Tail(head)
    ELSE <<Head(head)>> \o list_unlink(Tail(head), sock)

\* list_delete with the bug of leaving the node in the list.
list_delete_skip(w) ==
    /\ Running
    /\ pc[w] = "list_delete"
    /\ CanLock(list.mutex, w)
    /\ list' = [list EXCEPT !.mutex = NoThread]
    /\ bc' = [bc EXCEPT ![w] = NoBroadcast]
    /\ pc' = [pc EXCEPT ![w] = "close"]
    /\ UNCHANGED <<queue, linit, mainvars, client, node, p, buf, open, recv,
                   enq, deq, rej, env>>

\* list_delete(client), from pthread_mutex_lock on: find the node; not found,
\* return; found, unlink and free it, unlock.
list_delete(w) ==
    /\ Running
    /\ pc[w] = "list_delete"
    /\ CanLock(list.mutex, w)
    /\ IF client[w] \notin Range(list.head)
       THEN list' = [list EXCEPT !.mutex = w]
       ELSE list' = [head |-> list_unlink(list.head, client[w]), mutex |-> NoThread]
    /\ bc' = [bc EXCEPT ![w] = NoBroadcast]
    /\ pc' = [pc EXCEPT ![w] = "close"]
    /\ UNCHANGED <<queue, linit, mainvars, client, node, p, buf, open, recv,
                   enq, deq, rej, env>>

\* run_close with the bug of going around the loop without close(client).
run_close_leak(w) ==
    /\ Running
    /\ pc[w] = "close"
    /\ client' = [client EXCEPT ![w] = NoSock]
    /\ node' = [node EXCEPT ![w] = 0]
    /\ p' = [p EXCEPT ![w] = 0]
    /\ pc' = [pc EXCEPT ![w] = "queue_get"]
    /\ UNCHANGED <<queue, list, linit, mainvars, buf, bc, open, recv, enq, deq, rej,
                   env>>

\* run: close(client), and around the loop.  client, p and what list_append
\* returned are dead from here to their next assignment.
run_close(w) ==
    /\ Running
    /\ pc[w] = "close"
    /\ open' = open \ {client[w]}
    /\ client' = [client EXCEPT ![w] = NoSock]
    /\ node' = [node EXCEPT ![w] = 0]
    /\ p' = [p EXCEPT ![w] = 0]
    /\ pc' = [pc EXCEPT ![w] = "queue_get"]
    /\ UNCHANGED <<queue, list, linit, mainvars, buf, bc, recv, enq, deq, rej, env>>

\* pthread_mutex_lock(&list.mutex) by the thread that holds it, the other
\* outcome: the thread blocks for good.
self_deadlock(w) ==
    /\ Running
    /\ pc[w] \in {"list_append", "list_broadcast", "list_delete"}
    /\ list.mutex = w
    /\ pc' = [pc EXCEPT ![w] = "stuck"]
    /\ UNCHANGED <<queue, list, linit, mainvars, client, node, p, buf, bc, open,
                   recv, enq, deq, rej, env>>

----
Next ==
    \/ main_create
    \/ list_init
    \/ main_accept
    \/ main_accept_fails
    \/ queue_add
    \/ main_after_add
    \/ \E w \in Workers : queue_get(w)
    \/ \E w \in Workers : spurious_wakeup(w)
    \/ \E w \in Workers : list_append(w)
    \/ \E w \in Workers : do_work_read(w)
    \/ \E w \in Workers : list_broadcast_lock(w)
    \/ \E w \in Workers : list_broadcast(w)
    \/ \E w \in Workers : list_delete(w)
    \/ \E w \in Workers : run_close(w)
    \/ \E w \in Workers : self_deadlock(w)

Spec == Init /\ [][Next]_vars

\* Fair scheduling of the workers in queue_get: a worker that can lock the
\* queue and test it does so in the end.
\* The runs from boot only.
FairSpec == InitBoot /\ [][Next]_vars /\ \A w \in Workers : WF_vars(queue_get(w))

----
\* The properties.

\* The client descriptors held by the workers that are between queue_get and
\* close(client).
Serving(w) == pc[w] \notin {"none", "queue_get", "cond_wait"}

\* C1: the handles queue_get has returned are, in order, the first of the
\* handles queue_add has accepted, and those still in the ring buffer are, in
\* order, the rest: strict FIFO, nothing skipped, nothing returned twice.
FifoOrder ==
    /\ Len(deq) <= Len(enq)
    /\ deq = SubSeq(enq, 1, Len(deq))
    /\ Pending = SubSeq(enq, Len(deq) + 1, Len(enq))

\* Three handles were dequeued by three workers while one more is pending.
FifoWitness ==
    /\ Len(deq) >= 3
    /\ Len(enq) > Len(deq)
    /\ Cardinality({w \in Workers : Serving(w)}) >= 3

\* C2: queue_add returns -1 exactly when QUEUE_MAX-1 handles were pending, and
\* 0 otherwise; so it succeeds again once a queue_get has taken one from a
\* full queue.
AddRejectsIffFull ==
    mpc = "added" =>
        /\ mret \in {0 - 1, 0}
        /\ mret = 0 - 1 <=> mpend = QUEUE_MAX - 1

\* After a rejection and a queue_get, queue_add succeeded and filled the queue
\* again.
AddAfterGetWitness ==
    /\ mpc = "added"
    /\ mret = 0
    /\ mpend = QUEUE_MAX - 2
    /\ rej # <<>>
    /\ deq # <<>>

\* C3: a rejected queue_add leaves the buffer, both cursors and the waiters as
\* they were and main never waits; the rejected handle is in no slot that is
\* pending, not in the registry and in no worker's hands, and main's next step
\* closes it.
RejectedLeftAlone ==
    /\ [](Main \notin queue.empty)
    /\ [][(mpc = "queue_add" /\ mpc' = "added" /\ mret' = 0 - 1) => queue' = queue]_vars
    /\ [](mpc = "added" /\ mret = 0 - 1 =>
            /\ mclient \in open
            /\ mclient \notin Range(Pending)
            /\ mclient \notin Range(list.head)
            /\ \A w \in Workers : client[w] # mclient)
    /\ [][(mpc = "added" /\ mret = 0 - 1 /\ mpc' # mpc) => mclient \notin open']_vars

\* Main has rejected a handle and closed it, while workers were serving.
RejectedWitness ==
    /\ mpc = "accept"
    /\ rej # <<>>
    /\ rej[Len(rej)] \notin open
    /\ \E w \in Workers : Serving(w)

\* C4: no wake-up is lost.  While the process runs, whenever the queue is not
\* empty and a worker is in queue_get (about to test the queue, or waiting),
\* a worker dequeues in the end; and queue_get returns only when the queue is
\* not empty, with the handle at its head.
NoLostWakeup ==
    /\ \A n \in 0..MaxAccepts :
          (/\ Running
           /\ Len(deq) = n
           /\ queue_size > 0
           /\ \E w \in Workers : pc[w] \in {"queue_get", "cond_wait"})
          ~> (~Running \/ Len(deq) > n)
    /\ [][\A w \in Workers :
            (pc[w] = "queue_get" /\ pc'[w] = "list_append") =>
                /\ queue_size > 0
                /\ client'[w] = Pending[1]
                /\ queue_size' = queue_size - 1]_vars

\* A worker that a signal woke finds the queue empty, another having taken the
\* handle, while a third one waits.
WakeupWitness ==
    /\ queue_size = 0
    /\ deq # <<>>
    /\ \E w1, w2 \in Workers :
          /\ pc[w1] = "queue_get"
          /\ pc[w2] = "cond_wait"
          /\ w2 \in queue.empty

\* C5: every dequeued handle is in the hands of one worker only: two workers
\* between queue_get and close never have the same client, a client in a
\* worker's hands is open, is no longer pending and is not the one main is
\* adding or has had rejected; and a client descriptor is closed only by the worker that
\* dequeued it, at its close step, or by main when queue_add rejected it.
OneOwner ==
    /\ [](\A w \in Workers : Serving(w) =>
            /\ client[w] \in open
            /\ client[w] \notin Range(Pending)
            /\ (mpc = "queue_add" \/ (mpc = "added" /\ mret = 0 - 1))
                  => mclient # client[w]
            /\ \A v \in Workers \ {w} : Serving(v) => client[v] # client[w])
    /\ [][\A fd \in open \ open' :
            \/ \E w \in Workers :
                  pc[w] = "close" /\ client[w] = fd /\ pc'[w] = "queue_get"
            \/ mpc = "added" /\ mret = 0 - 1 /\ mclient = fd /\ mpc' = "accept"]_vars

\* One worker is about to close its client while another is writing to the
\* registered clients.
OneOwnerWitness ==
    \E w, v \in Workers : pc[w] = "close" /\ pc[v] = "write" /\ client[v] \in open

\* C6: the registry never holds a handle twice, and it holds the client of
\* every worker whose list_append returned a node and whose list_delete has
\* not run yet.
RegistryExact ==
    /\ Cardinality(Range(list.head)) = Len(list.head)
    /\ \A w \in Workers :
          (node[w] # 0 /\ pc[w] \in {"read", "list_broadcast", "write", "list_delete",
                                     "stuck"})
             => client[w] \in Range(list.head)

\* A worker has unregistered its client while another client, registered
\* before it, is still in the registry.
RegistryWitness ==
    \E w, v \in Workers :
       /\ pc[w] = "close"
       /\ node[w] > node[v]
       /\ node[v] # 0
       /\ client[v] \in Range(list.head)

\* Handle a is before handle b in sequence s.
Before(s, a, b) == \E i, j \in 1..Len(s) : i < j /\ s[i] = a /\ s[j] = b

BroadcastsOrdered ==
    /\ Cardinality({w \in Workers : pc[w] = "write"}) <= 1
    /\ \A x, y \in {fd \in ClientFds : Len(recv[fd]) > 1} : \A a, b \in 1..MaxEvents :
          Before(recv[x], a, b) => ~Before(recv[y], b, a)

\* Two workers have each broadcast a payload, and two handles have received
\* both payloads.
OrderedWitness ==
    \E w, v \in Workers :
       /\ w # v
       /\ bc[v].ret = 0
       /\ pc[w] = "write"
       /\ p[w] = 0
       /\ \E x, y \in {fd \in ClientFds : Len(recv[fd]) > 1} :
             /\ x # y
             /\ Before(recv[x], buf[v], buf[w])
             /\ Before(recv[y], buf[v], buf[w])

\* C9: at most one thread is inside the critical section of list_append,
\* list_delete or list_broadcast, and it holds the mutex; the registry does not
\* change between the first and the last write of a broadcast; and while a
\* broadcast is inside (stalled in a write, say) no other worker registers,
\* unregisters or starts a broadcast (a list_append whose malloc fails returns
\* before the critical section, and registers nothing).
RegistryExclusion ==
    /\ [](\A w \in Workers : pc[w] = "write" =>
            /\ list.mutex = w
            /\ list.head = bc[w].snap
            /\ \A v \in Workers \ {w} : pc[v] # "write")
    /\ [][\A w \in Workers : pc[w] = "write" =>
            /\ list'.head = list.head
            /\ \A v \in Workers \ {w} :
                  /\ pc[v] = "list_append" /\ pc'[v] # pc[v] => node'[v] = 0
                  /\ pc[v] = "list_delete" => pc'[v] = pc[v]
                  /\ pc[v] = "list_broadcast" => pc'[v] = pc[v]]_vars

\* A broadcast is between two writes while another worker waits to unregister.
ExclusionWitness ==
    \E w, v \in Workers :
       /\ pc[w] = "write"
       /\ bc[w].sent # <<>>
       /\ p[w] > 0
       /\ pc[v] = "list_delete"

\* C10: a list_delete of a handle that is not in the registry returns with the
\* registry as it was, its mutex included.
DeleteAbsentNoOp ==
    [][\A w \in Workers :
         (pc[w] = "list_delete" /\ pc'[w] = "close"
            /\ client[w] \notin Range(list.head)) => list' = list]_vars

\* C11: a failure in serving one client ends that client's session only: a
\* worker whose list_broadcast returned -1, or whose read returned 0 or an
\* error, is never blocked for good on its way through list_delete and close
\* back to queue_get, there or at its next client.
SessionEndsWorkerGoesOn ==
    \A w \in Workers : pc[w] # "stuck"

\* C12: the failure of one connection stops no other worker: a worker that is
\* about to register, broadcast or unregister can do so, unless a broadcast
\* that is under way holds the registry for the time of its writes.
OthersGoOn ==
    \A v \in Workers :
       (Running /\ pc[v] \in {"list_append", "list_broadcast", "list_delete"}) =>
          \/ \E w \in Workers \ {v} : pc[w] = "write"
          \/ /\ pc[v] = "list_append" =>
                  ENABLED (list_append(v) /\ node'[v] # 0)
             /\ pc[v] = "list_broadcast" => ENABLED list_broadcast_lock(v)
             /\ pc[v] = "list_delete" => ENABLED list_delete(v)

\* C13: a list_append that returns NULL ends the session: the worker's next
\* step is close(client), not a read.
FailedAppendDropsClient ==
    [][\A w \in Workers :
         (pc[w] = "list_append" /\ pc'[w] \notin {"list_append", "stuck"}
            /\ node'[w] = 0) => pc'[w] = "close"]_vars

\* C14: the handles in the registry are the clients of the workers that are
\* between the return of list_append and the return of list_delete; a worker in
\* do_work (reading, broadcasting) has its client in the registry.
RegisteredIffInService ==
    /\ \A w \in Workers :
          pc[w] \in {"read", "list_broadcast", "write"} =>
             client[w] \in Range(list.head)
    /\ \A fd \in Range(list.head) :
          \E w \in Workers :
             /\ client[w] = fd
             /\ pc[w] \in {"read", "list_broadcast", "write", "list_delete", "stuck"}

\* The connected handles other than fd that the core holds: those pending in
\* the queue and those in the hands of a worker.
OthersConnected(fd) ==
    (Range(Pending) \cup {client[v] : v \in {u \in Workers : Serving(u)}}) \ {fd}

PendingSlots == {(queue.read + i) % QUEUE_MAX : i \in 0..(queue_size - 1)}

\* C16: both cursors stay in 0..QUEUE_MAX-1; queue_size is the number of
\* handles enqueued and not dequeued yet, and is at most QUEUE_MAX-1; a
\* queue_add that stores writes a slot that holds no pending handle and leaves
\* the pending ones as they are; a queue_get that returns reads a slot that a
\* queue_add wrote and no queue_get has read since.
QueueBounds ==
    /\ [](/\ queue.read \in 0..(QUEUE_MAX - 1)
          /\ queue.write \in 0..(QUEUE_MAX - 1)
          /\ queue_size = Len(enq) - Len(deq)
          /\ queue_size <= QUEUE_MAX - 1
          /\ Cardinality(PendingSlots) = queue_size)
    /\ [][(mpc = "queue_add" /\ mpc' = "added" /\ mret' = 0) =>
            /\ queue.write \notin PendingSlots
            /\ \A i \in PendingSlots : queue'.sockets[i] = queue.sockets[i]
            /\ PendingSlots' = PendingSlots \cup {queue.write}]_vars
    /\ [][\A w \in Workers : (pc[w] = "queue_get" /\ pc'[w] = "list_append") =>
            /\ queue.read \in PendingSlots
            /\ queue.sockets[queue.read] = enq[Len(deq) + 1]
            /\ PendingSlots' = PendingSlots \ {queue.read}]_vars

\* The queue is full again after the write cursor has wrapped around.
QueueWrapWitness ==
    /\ queue.write < queue.read
    /\ queue_size = QUEUE_MAX - 1
    /\ deq # <<>>

\* C17: a mutex is held only by a thread that is inside one of the operations
\* that lock it: between the steps of the threads the queue's mutex is free,
\* and the registry's mutex is free or held by a worker that is between two
\* writes of list_broadcast.
LocksReleased ==
    /\ queue.mutex = NoThread
    /\ list.mutex # NoThread =>
          list.mutex \in Workers /\ pc[list.mutex] = "write"

\* C18: a worker closes its client only after list_delete has taken it out of
\* the registry, so every handle in the registry is open: list_broadcast writes
\* to open descriptors only, and the descriptor accept() returns, which may be
\* the number of a connection closed before, is in no registry entry.
UnregisterBeforeClose ==
    /\ [](Range(list.head) \subseteq open)
    /\ [](\A w \in Workers : (pc[w] = "write" /\ p[w] > 0) => sock_at(p[w]) \in open)
    /\ [][\A w \in Workers : (pc[w] = "close" /\ pc'[w] # "close") =>
            /\ client[w] \notin Range(list.head)
            /\ open' = open \ {client[w]}]_vars
    /\ [][(mpc = "accept" /\ mpc' = "queue_add") =>
            mclient' \notin Range(list.head)]_vars

\* The descriptor of a connection that was served and closed was given to a
\* new connection, which is registered and has received a broadcast.
ReuseWitness ==
    /\ Len(enq) > 1
    /\ enq[1] = enq[2]
    /\ \E w \in Workers :
          /\ pc[w] = "write"
          /\ p[w] = 0
          /\ client[w] = enq[2]
          /\ bc[w].sent = <<enq[2]>>

\* The handles the core holds: those pending in the queue and those in the
\* hands of a worker.
Held == Range(Pending) \cup {client[w] : w \in {u \in Workers : Serving(u)}}

\* C19: a worker has one client at a time, so that the registry never has more
\* than NUM_THREADS entries and the core never holds more than NUM_THREADS +
\* QUEUE_MAX-1 handles; and every accepted handle that nobody has closed is one
\* of these, or the one main has just accepted and not yet added or closed.
BoundedHandles ==
    /\ Len(list.head) <= NUM_THREADS
    /\ Cardinality(Held) = queue_size + Cardinality({w \in Workers : Serving(w)})
    /\ Cardinality(Held) <= NUM_THREADS + QUEUE_MAX - 1
    /\ Held \subseteq open
    /\ open \ Held \subseteq
          (IF mpc = "queue_add" \/ (mpc = "added" /\ mret = 0 - 1)
           THEN {mclient} ELSE {})

\* Every worker has a registered client and the queue is full.
BoundedWitness ==
    /\ Len(list.head) = NUM_THREADS
    /\ \A w \in Workers : Serving(w)
    /\ queue_size = QUEUE_MAX - 1
    /\ Cardinality(Held) = NUM_THREADS + QUEUE_MAX - 1

\* C20: until list_init has run no worker is past queue_get: the queue is
\* empty and nothing was added to it, each worker is not created yet, about to
\* test the queue or waiting, and every step of a worker in list_append,
\* list_broadcast or list_delete comes after list_init.
ListInitFirst ==
    /\ [](~linit =>
            /\ mpc \in {"create", "list_init"}
            /\ queue_size = 0
            /\ enq = <<>>
            /\ \A w \in Workers : pc[w] \in {"none", "queue_get", "cond_wait"})
    /\ [][\A w \in Workers :
            (pc[w] \in {"list_append", "list_broadcast", "write", "list_delete"}
               /\ pc'[w] # pc[w]) => linit]_vars

\* Every worker was created, and one has tested the queue and waits, while
\* main has not called list_init yet.
ListInitWitness ==
    /\ ~linit
    /\ mpc = "list_init"
    /\ \E w, v \in Workers : pc[w] = "cond_wait" /\ pc[v] = "queue_get"

====
